---- MODULE Spec2Model ----
(***************************************************************************)
(* Model of the OBD-II / ELM327 reader of mariobignami/obd2-connector:     *)
(* the hex frame parser and the PID registry (obd/reader.py,               *)
(* obd/commands.py), the per-PID read, the bulk scan, the write           *)
(* operations (obd/reader.py, obd/writer.py), the connector               *)
(* (connector/base.py), the realtime poller thread                         *)
(* (OBDReader.start_realtime / stop_realtime) and the trip computer of     *)
(* the command-line interface (cli/interface.py).                          *)
(*                                                                         *)
(* Python strings are modelled as sequences of one-character strings, so   *)
(* that strip / upper / replace / split act on characters as in the code.  *)
(***************************************************************************)
EXTENDS Integers, Sequences, FiniteSets, TLC

(***************************************************************************)
(* Characters and Python string helpers                                    *)
(***************************************************************************)

\* the literal "0123456789ABCDEF" of the hex-token filters
HexDigits == <<"0","1","2","3","4","5","6","7","8","9","A","B","C","D","E","F">>

LowerChars == <<"a","b","c","d","e","f","g","h","i","j","k","l","m",
                "n","o","p","q","r","s","t","u","v","w","x","y","z">>

UpperChars == <<"A","B","C","D","E","F","G","H","I","J","K","L","M",
                "N","O","P","Q","R","S","T","U","V","W","X","Y","Z">>

\* characters str.strip() and str.split() treat as whitespace
Whitespace == {" ", "\t", "\n", "\r", "\f"}

IsSpace(c) == c \in Whitespace

IsHexChar(c) == \E i \in 1..16 : HexDigits[i] = c

\* int(c, 16) of one (upper- or lower-case) hex character
HexVal(c) ==
    IF \E i \in 1..16 : HexDigits[i] = c
    THEN (CHOOSE i \in 1..16 : HexDigits[i] = c) - 1
    ELSE (CHOOSE i \in 1..6 : LowerChars[i] = c) + 9

\* str.upper(), one character
UpperChar(c) ==
    IF \E i \in 1..26 : LowerChars[i] = c
    THEN UpperChars[CHOOSE i \in 1..26 : LowerChars[i] = c]
    ELSE c

\* str.upper()
Upper(s) == [i \in 1..Len(s) |-> UpperChar(s[i])]

\* str.replace("\r", " ").replace("\n", " ")
ReplaceCRLF(s) == [i \in 1..Len(s) |-> IF s[i] \in {"\r", "\n"} THEN " " ELSE s[i]]

RECURSIVE LStrip(_)
LStrip(s) == IF s # <<>> /\ IsSpace(Head(s)) THEN LStrip(Tail(s)) ELSE s

RECURSIVE RStrip(_)
RStrip(s) ==
    IF s # <<>> /\ IsSpace(s[Len(s)]) THEN RStrip(SubSeq(s, 1, Len(s) - 1)) ELSE s

\* str.strip()
Strip(s) == RStrip(LStrip(s))

\* str.split() on whitespace: cur is the token being accumulated
RECURSIVE SplitFrom(_, _)
SplitFrom(s, cur) ==
    IF s = <<>>
    THEN IF cur = <<>> THEN <<>> ELSE <<cur>>
    ELSE IF IsSpace(Head(s))
         THEN IF cur = <<>>
              THEN SplitFrom(Tail(s), <<>>)
              ELSE <<cur>> \o SplitFrom(Tail(s), <<>>)
         ELSE SplitFrom(Tail(s), Append(cur, Head(s)))

\* str.split().  A long string is first cut at the blank nearest to its
\* middle (the tokens of the two parts are the tokens of the whole), which
\* keeps the recursion shallow on multi-frame replies
RECURSIVE Split(_)
Split(s) ==
    LET cuts == {p \in 1..Len(s) : IsSpace(s[p])}
        mid  == (Len(s) + 1) \div 2
        Dist(p) == IF p >= mid THEN p - mid ELSE mid - p
    IN  IF Len(s) <= 16 \/ cuts = {}
        THEN SplitFrom(s, <<>>)
        ELSE LET p == CHOOSE x \in cuts : \A y \in cuts : Dist(x) <= Dist(y)
             IN  Split(SubSeq(s, 1, p - 1)) \o Split(SubSeq(s, p + 1, Len(s)))

\* the filter  all(c in "0123456789ABCDEF" for c in t) and len(t) == 2
IsHexToken(t) == Len(t) = 2 /\ \A i \in 1..Len(t) : IsHexChar(t[i])

HexTokens(tokens) == SelectSeq(tokens, IsHexToken)

\* int(t, 16) for a string of hex characters
RECURSIVE IntHex(_)
IntHex(t) ==
    IF t = <<>> THEN 0 ELSE IntHex(SubSeq(t, 1, Len(t) - 1)) * 16 + HexVal(t[Len(t)])

\* format(n, "X") for n >= 0
RECURSIVE FormatX(_)
FormatX(n) ==
    IF n < 16 THEN <<HexDigits[n + 1]>>
    ELSE FormatX(n \div 16) \o <<HexDigits[(n % 16) + 1]>>

\* format(n, "02X")
Format02X(n) == IF n < 16 THEN <<"0">> \o FormatX(n) ELSE FormatX(n)

\* list.index(x): 1-based position of the first occurrence, 0 = ValueError
IndexOf(seq, x) ==
    IF \E i \in 1..Len(seq) : seq[i] = x
    THEN CHOOSE i \in 1..Len(seq) : seq[i] = x /\ \A j \in 1..(i - 1) : seq[j] # x
    ELSE 0

(***************************************************************************)
(* Hex frame parser (obd/reader.py)                                        *)
(***************************************************************************)

\* Python's None, as returned by _parse_hex_response and read_pid
None == [kind |-> "none"]

\* the result of _parse_hex_response: None (ok = FALSE) or a list of ints
NoData == [ok |-> FALSE, data |-> <<>>]

\* the frame parser without the check of the PID token
_parse_hex_response_nopid(raw, mode, pid) ==
    LET norm         == ReplaceCRLF(Upper(Strip(raw)))
        lines        == Split(norm)
        hex_tokens   == HexTokens(lines)
        response_mode == Format02X(IntHex(mode) + 64)
        i            == IndexOf(hex_tokens, response_mode)
        data         == SubSeq(hex_tokens, i + 2, Len(hex_tokens))
    IN  IF hex_tokens = <<>> THEN NoData
        ELSE IF i = 0 THEN NoData
        ELSE IF data = <<>> THEN NoData
        ELSE [ok |-> TRUE, data |-> [j \in 1..Len(data) |-> IntHex(data[j])]]

_parse_hex_response(raw, mode, pid) ==
    LET norm         == ReplaceCRLF(Upper(Strip(raw)))
        lines        == Split(norm)
        hex_tokens   == HexTokens(lines)
        response_mode == Format02X(IntHex(mode) + 64)
        i            == IndexOf(hex_tokens, response_mode)
        data         == SubSeq(hex_tokens, i + 2, Len(hex_tokens))
    IN  IF hex_tokens = <<>> THEN NoData
        ELSE IF i = 0 THEN NoData
        ELSE IF i < Len(hex_tokens) /\ hex_tokens[i + 1] # Upper(pid) THEN NoData
        ELSE IF data = <<>> THEN NoData
        ELSE [ok |-> TRUE, data |-> [j \in 1..Len(data) |-> IntHex(data[j])]]

(***************************************************************************)
(* Value decoders (obd/commands.py).  A decoded number is the fraction     *)
(* num / den; a decoder indexing past the end of its byte list raises      *)
(* IndexError.                                                             *)
(***************************************************************************)

Num(n, d) == [kind |-> "num", num |-> n, den |-> d]

Returned(v) == [raised |-> FALSE, value |-> v]

Raised == [raised |-> TRUE, value |-> None]

\* round(n / d, 0) for d > 0: nearest integer, ties to the even one
RoundHalfEven(n, d) ==
    LET q == n \div d
        r == n % d
    IN  IF 2 * r > d \/ (2 * r = d /\ q % 2 = 1) THEN q + 1 ELSE q

\* b[0] * 256 + b[1]
Word(b) == b[1] * 256 + b[2]

_a(b) == IF Len(b) < 1 THEN Raised ELSE Returned(Num(b[1], 1))

_ab(b) == IF Len(b) < 2 THEN Raised ELSE Returned(Num(Word(b), 1))

_rpm(b) == IF Len(b) < 2 THEN Raised ELSE Returned(Num(Word(b), 4))

_temp(b) == IF Len(b) < 1 THEN Raised ELSE Returned(Num(b[1] - 40, 1))

_percent_a(b) ==
    IF Len(b) < 1 THEN Raised ELSE Returned(Num(RoundHalfEven(b[1] * 1000, 255), 10))

_percent_ab(b) ==
    IF Len(b) < 2 THEN Raised ELSE Returned(Num(RoundHalfEven(Word(b) * 1000, 65535), 10))

_maf(b) == IF Len(b) < 2 THEN Raised ELSE Returned(Num(Word(b), 100))

_timing(b) == IF Len(b) < 1 THEN Raised ELSE Returned(Num(b[1] - 128, 2))

_voltage(b) == IF Len(b) < 2 THEN Raised ELSE Returned(Num(Word(b), 1000))

_fuel_rate(b) == IF Len(b) < 2 THEN Raised ELSE Returned(Num(Word(b) * 5, 100))

_short_fuel_trim(b) ==
    IF Len(b) < 1 THEN Raised
    ELSE Returned(Num(RoundHalfEven((b[1] - 128) * 1000, 128), 10))

_long_fuel_trim(b) ==
    IF Len(b) < 1 THEN Raised
    ELSE Returned(Num(RoundHalfEven((b[1] - 128) * 1000, 128), 10))

\* the sign test made with > instead of >=
_evap_pressure_offbyone(b) ==
    IF Len(b) < 2 THEN Raised
    ELSE LET val == Word(b)
         IN  Returned(Num(IF val > 32768 THEN val - 65536 ELSE val, 4))

_evap_pressure(b) ==
    IF Len(b) < 2 THEN Raised
    ELSE LET val == Word(b)
         IN  Returned(Num(IF val >= 32768 THEN val - 65536 ELSE val, 4))

\* the DTC count taken from the whole first byte
_mil_status_wholebyte(b) ==
    IF Len(b) < 1 THEN Raised
    ELSE Returned([kind |-> "mil", mil_on |-> (b[1] \div 128) % 2 = 1,
                   dtc_count |-> b[1]])

\* the lambda of OBD_PIDS["MIL_STATUS"]: b[0] & 0x80, b[0] & 0x7F
_mil_status(b) ==
    IF Len(b) < 1 THEN Raised
    ELSE Returned([kind |-> "mil", mil_on |-> (b[1] \div 128) % 2 = 1,
                   dtc_count |-> b[1] % 128])

(***************************************************************************)
(* PID registry (obd/commands.py), in insertion order                      *)
(***************************************************************************)

OBD_PIDS == <<
    [key |-> "MIL_STATUS", mode |-> <<"0","1">>, pid |-> <<"0","1">>, bytes |-> 4, parse |-> "_mil_status"],
    [key |-> "RPM", mode |-> <<"0","1">>, pid |-> <<"0","C">>, bytes |-> 2, parse |-> "_rpm"],
    [key |-> "SPEED", mode |-> <<"0","1">>, pid |-> <<"0","D">>, bytes |-> 1, parse |-> "_a"],
    [key |-> "COOLANT_TEMP", mode |-> <<"0","1">>, pid |-> <<"0","5">>, bytes |-> 1, parse |-> "_temp"],
    [key |-> "ENGINE_LOAD", mode |-> <<"0","1">>, pid |-> <<"0","4">>, bytes |-> 1, parse |-> "_percent_a"],
    [key |-> "THROTTLE", mode |-> <<"0","1">>, pid |-> <<"1","1">>, bytes |-> 1, parse |-> "_percent_a"],
    [key |-> "MAF", mode |-> <<"0","1">>, pid |-> <<"1","0">>, bytes |-> 2, parse |-> "_maf"],
    [key |-> "INTAKE_TEMP", mode |-> <<"0","1">>, pid |-> <<"0","F">>, bytes |-> 1, parse |-> "_temp"],
    [key |-> "MAP", mode |-> <<"0","1">>, pid |-> <<"0","B">>, bytes |-> 1, parse |-> "_a"],
    [key |-> "TIMING_ADVANCE", mode |-> <<"0","1">>, pid |-> <<"0","E">>, bytes |-> 1, parse |-> "_timing"],
    [key |-> "OIL_TEMP", mode |-> <<"0","1">>, pid |-> <<"5","C">>, bytes |-> 1, parse |-> "_temp"],
    [key |-> "FUEL_LEVEL", mode |-> <<"0","1">>, pid |-> <<"2","F">>, bytes |-> 1, parse |-> "_percent_a"],
    [key |-> "FUEL_RATE", mode |-> <<"0","1">>, pid |-> <<"5","E">>, bytes |-> 2, parse |-> "_fuel_rate"],
    [key |-> "SHORT_FUEL_TRIM_1", mode |-> <<"0","1">>, pid |-> <<"0","6">>, bytes |-> 1, parse |-> "_short_fuel_trim"],
    [key |-> "LONG_FUEL_TRIM_1", mode |-> <<"0","1">>, pid |-> <<"0","7">>, bytes |-> 1, parse |-> "_long_fuel_trim"],
    [key |-> "VOLTAGE", mode |-> <<"0","1">>, pid |-> <<"4","2">>, bytes |-> 2, parse |-> "_voltage"],
    [key |-> "BARO_PRESSURE", mode |-> <<"0","1">>, pid |-> <<"3","3">>, bytes |-> 1, parse |-> "_a"],
    [key |-> "AMBIENT_TEMP", mode |-> <<"0","1">>, pid |-> <<"4","6">>, bytes |-> 1, parse |-> "_temp"],
    [key |-> "RUNTIME", mode |-> <<"0","1">>, pid |-> <<"1","F">>, bytes |-> 2, parse |-> "_ab"],
    [key |-> "DISTANCE_MIL", mode |-> <<"0","1">>, pid |-> <<"2","1">>, bytes |-> 2, parse |-> "_ab"],
    [key |-> "DISTANCE_SINCE_CLR", mode |-> <<"0","1">>, pid |-> <<"3","1">>, bytes |-> 2, parse |-> "_ab"],
    [key |-> "WARMUPS_SINCE_CLR", mode |-> <<"0","1">>, pid |-> <<"3","0">>, bytes |-> 1, parse |-> "_a"],
    [key |-> "ABS_LOAD", mode |-> <<"0","1">>, pid |-> <<"4","3">>, bytes |-> 2, parse |-> "_percent_ab"],
    [key |-> "EVAP_PRESSURE", mode |-> <<"0","1">>, pid |-> <<"3","2">>, bytes |-> 2, parse |-> "_evap_pressure"]
>>

\* list(OBD_PIDS.keys())
RegistryKeys == [i \in 1..Len(OBD_PIDS) |-> OBD_PIDS[i].key]

\* key in OBD_PIDS
Registered(key) == \E i \in 1..Len(OBD_PIDS) : OBD_PIDS[i].key = key

\* OBD_PIDS[key]
Info(key) == OBD_PIDS[CHOOSE i \in 1..Len(OBD_PIDS) : OBD_PIDS[i].key = key]

\* info["parse"](b)
Decode(parse, b) ==
    CASE parse = "_a" -> _a(b)
      [] parse = "_ab" -> _ab(b)
      [] parse = "_rpm" -> _rpm(b)
      [] parse = "_temp" -> _temp(b)
      [] parse = "_percent_a" -> _percent_a(b)
      [] parse = "_percent_ab" -> _percent_ab(b)
      [] parse = "_maf" -> _maf(b)
      [] parse = "_timing" -> _timing(b)
      [] parse = "_voltage" -> _voltage(b)
      [] parse = "_fuel_rate" -> _fuel_rate(b)
      [] parse = "_short_fuel_trim" -> _short_fuel_trim(b)
      [] parse = "_long_fuel_trim" -> _long_fuel_trim(b)
      [] parse = "_evap_pressure" -> _evap_pressure(b)
      [] parse = "_mil_status" -> _mil_status(b)

(***************************************************************************)
(* Connector (connector/base.py) and the adapter behind it                 *)
(***************************************************************************)

\* state of the serial link: "open" (is_connected() and the port works),
\* "closed" (is_connected() is False), "error" (the port is open but
\* write/read raise serial.SerialException)
Links == {"open", "closed", "error"}

\* what the text of an ELM327 reply looks like for a command, per vehicle:
\*   "positive"  every PID answered with four data bytes
\*   "short"     every PID answered with one data byte only
\*   "nodata"    NO DATA for every PID
\*   "stub"      the fixed reply "41 0D 64" of the test connector
Adapters == {"positive", "short", "nodata", "stub"}

Prompt == <<"\r", "\r", ">">>

\* the bytes the adapter puts on the line in answer to cmd
AdapterOutput(adapter, cmd) ==
    LET mode == SubSeq(cmd, 1, 2)
        pid  == SubSeq(cmd, 3, Len(cmd))
        head == Format02X(IntHex(mode) + 64) \o <<" ">> \o pid
    IN  CASE adapter = "positive" ->
               head \o <<" ","6","4"," ","0","0"," ","0","0"," ","0","0"," ">> \o Prompt
          [] adapter = "short" -> head \o <<" ","6","4"," ">> \o Prompt
          [] adapter = "nodata" -> <<"N","O"," ","D","A","T","A">> \o Prompt
          [] adapter = "stub" -> <<"4","1"," ","0","D"," ","6","4">>

\* BaseConnector.send_command: raises when not connected (or when the
\* port raises), else returns the decoded reply, stripped
send_command(lnk, output) ==
    CASE lnk = "closed" -> [exc |-> "ConnectionError", raw |-> <<>>]
      [] lnk = "error"  -> [exc |-> "SerialException", raw |-> <<>>]
      [] lnk = "open"   -> [exc |-> "", raw |-> Strip(output)]

(***************************************************************************)
(* OBDReader.read_pid                                                      *)
(***************************************************************************)

\* info["mode"] + info["pid"]
CmdOf(key) == Info(key).mode \o Info(key).pid

\* the try block without the test  len(data) >= info["bytes"]
TryRead_nolen(key, reply) ==
    LET info == Info(key)
        data == _parse_hex_response(reply.raw, info.mode, info.pid)
        n    == IF Len(data.data) < info.bytes THEN Len(data.data) ELSE info.bytes
    IN  IF reply.exc # "" THEN [raised |-> reply.exc, value |-> None]
        ELSE IF data.ok
             THEN LET r == Decode(info.parse, SubSeq(data.data, 1, n))
                  IN  IF r.raised THEN [raised |-> "IndexError", value |-> None]
                      ELSE [raised |-> "", value |-> r.value]
             ELSE [raised |-> "", value |-> None]

\* the body of read_pid's try block: the value it returns, or the
\* exception raised inside it (raised # "")
TryRead(key, reply) ==
    LET info == Info(key)
        data == _parse_hex_response(reply.raw, info.mode, info.pid)
    IN  IF reply.exc # "" THEN [raised |-> reply.exc, value |-> None]
        ELSE IF data.ok /\ Len(data.data) >= info.bytes
             THEN LET r == Decode(info.parse, SubSeq(data.data, 1, info.bytes))
                  IN  IF r.raised THEN [raised |-> "IndexError", value |-> None]
                      ELSE [raised |-> "", value |-> r.value]
             ELSE [raised |-> "", value |-> None]

\* read_pid returning None for a key that is not registered
read_pid_lenient(key, lnk, output) ==
    IF ~Registered(key)
    THEN [raised |-> "", value |-> None, sent |-> <<>>]
    ELSE LET r == TryRead(key, send_command(lnk, output))
         IN  [raised |-> "",
              value  |-> IF r.raised # "" THEN None ELSE r.value,
              sent   |-> <<CmdOf(key)>>]

\* read_pid without its try/except
read_pid_nocatch(key, lnk, output) ==
    IF ~Registered(key)
    THEN [raised |-> "ValueError", value |-> None, sent |-> <<>>]
    ELSE LET r == TryRead(key, send_command(lnk, output))
         IN  [raised |-> r.raised, value |-> r.value, sent |-> <<CmdOf(key)>>]

\* read_pid(key) against a connector in state lnk whose adapter answers
\* output: raised = the exception that leaves read_pid ("" = it returns),
\* sent = the send_command calls made
read_pid(key, lnk, output) ==
    IF ~Registered(key)
    THEN [raised |-> "ValueError", value |-> None, sent |-> <<>>]
    ELSE LET r == TryRead(key, send_command(lnk, output))
         IN  [raised |-> "",
              value  |-> IF r.raised # "" THEN None ELSE r.value,
              sent   |-> <<CmdOf(key)>>]

\* dict helpers
EmptyDict == [x \in {} |-> None]

DictSet(d, k, v) == [x \in (DOMAIN d) \cup {k} |-> IF x = k THEN v ELSE d[x]]

\* read_pid of registry entry i, as read_all calls it
ReadEntry(i, lnk, adp) ==
    read_pid(OBD_PIDS[i].key, lnk, AdapterOutput(adp, CmdOf(OBD_PIDS[i].key)))

\* the send_command calls read_all makes from registry entry i on
RECURSIVE ReadAllSent(_, _, _)
ReadAllSent(i, lnk, adp) ==
    IF i > Len(OBD_PIDS) THEN <<>>
    ELSE ReadEntry(i, lnk, adp).sent \o ReadAllSent(i + 1, lnk, adp)

\* OBDReader.read_all against one adapter and link state:
\* for key in OBD_PIDS: results[key] = self.read_pid(key)
read_all(lnk, adp) ==
    [results |-> [key \in {OBD_PIDS[i].key : i \in 1..Len(OBD_PIDS)} |->
                     ReadEntry(CHOOSE i \in 1..Len(OBD_PIDS) : OBD_PIDS[i].key = key,
                               lnk, adp).value],
     sent    |-> ReadAllSent(1, lnk, adp)]

(***************************************************************************)
(* State                                                                   *)
(***************************************************************************)

VARIABLES
    stop_event,        \* OBDReader._stop_event (threading.Event): is it set
    realtime_thread,   \* OBDReader._realtime_thread: 0 = None, else index in threads
    threads,           \* every Thread object start_realtime has created
    link,              \* state of the connector's serial link
    adapter,           \* how the adapter behind the connector answers
    caller,            \* where the thread calling the reader's API is
    last_op            \* the API call that returned last, with its outcome

vars == <<stop_event, realtime_thread, threads, link, adapter, caller, last_op>>

(***************************************************************************)
(* Bounds and inputs                                                       *)
(***************************************************************************)

\* at most this many worker threads are created in one run
MaxThreads == 2

\* keys=None
NoKeys == <<>>

\* the (callback, interval, keys) arguments start_realtime is called with
StartArgs == {
    [callback |-> "cb1", interval |-> 1,  keys |-> NoKeys],
    [callback |-> "cb2", interval |-> 10, keys |-> <<"RPM", "SPEED">>],
    [callback |-> "cb3", interval |-> 1,  keys |-> <<"SPEED", "DOES_NOT_EXIST">>] }

(***************************************************************************)
(* Worker threads                                                          *)
(***************************************************************************)

\* the "_timestamp" entry: time.time(), a float whose value is not modelled
Timestamp == [kind |-> "time"]

\* a Thread object whose run() has finished (Thread.run deletes its target):
\* how = "dead" (returned) or "crashed" (unhandled exception)
Finished(how) ==
    [pc |-> how, callback |-> "", interval |-> 0, selected_keys |-> <<>>,
     k |-> 0, snapshot |-> EmptyDict, log |-> <<>>, slow |-> FALSE,
     delivered |-> FALSE]

\* Thread.is_alive()
IsAlive(t) == t.pc \notin {"dead", "crashed"}

\* the check of start_realtime made on the cancellation flag instead of
\* on the thread
WorkerAlive_flag == realtime_thread # 0 /\ ~stop_event

\* self._realtime_thread and self._realtime_thread.is_alive()
WorkerAlive == realtime_thread # 0 /\ IsAlive(threads[realtime_thread])

AliveThreads == {i \in 1..Len(threads) : IsAlive(threads[i])}

SetThread(i, t) == threads' = [threads EXCEPT ![i] = t]

\* while not self._stop_event.is_set():  snapshot = {}
LoopTest(i) ==
    LET t == threads[i]
    IN  /\ t.pc = "while"
        /\ IF stop_event
           THEN SetThread(i, Finished("dead"))
           ELSE SetThread(i, [t EXCEPT !.pc = "for", !.k = 1,
                                       !.snapshot = EmptyDict, !.log = <<>>])
        /\ UNCHANGED <<stop_event, realtime_thread, link, adapter, caller, last_op>>

\* the for loop without  if self._stop_event.is_set(): break
ForStep_nocheck(i, slow) ==
    LET t == threads[i]
    IN  /\ t.pc = "for"
        /\ IF t.k > Len(t.selected_keys)
           THEN SetThread(i, [t EXCEPT !.pc = "callback", !.slow = slow,
                                       !.delivered = TRUE,
                                       !.snapshot = DictSet(t.snapshot, "_timestamp", Timestamp)])
           ELSE LET r == read_pid(t.selected_keys[t.k], link, <<>>)
                IN  IF r.raised # "" /\ r.sent = <<>>
                    THEN /\ slow = FALSE
                         /\ SetThread(i, Finished("crashed"))
                    ELSE SetThread(i, [t EXCEPT !.pc = "send", !.slow = slow])
        /\ UNCHANGED <<stop_event, realtime_thread, link, adapter, caller, last_op>>

\* for k in selected_keys: if self._stop_event.is_set(): break
\* then read_pid(k) up to its call of connector.send_command; when the loop
\* is over (or broken), snapshot["_timestamp"] = time.time(); callback(snapshot)
ForStep(i, slow) ==
    LET t == threads[i]
    IN  /\ t.pc = "for"
        /\ IF t.k > Len(t.selected_keys) \/ stop_event
           THEN SetThread(i, [t EXCEPT !.pc = "callback", !.slow = slow,
                                       !.delivered = TRUE,
                                       !.snapshot = DictSet(t.snapshot, "_timestamp", Timestamp)])
           ELSE LET r == read_pid(t.selected_keys[t.k], link, <<>>)
                IN  IF r.raised # "" /\ r.sent = <<>>
                    THEN /\ slow = FALSE
                         /\ SetThread(i, Finished("crashed"))
                    ELSE SetThread(i, [t EXCEPT !.pc = "send", !.slow = slow])
        /\ UNCHANGED <<stop_event, realtime_thread, link, adapter, caller, last_op>>

\* a worker whose tick ends at the first key that yields no value
SendReturn_abort(i) ==
    LET t     == threads[i]
        key   == t.selected_keys[t.k]
        out   == AdapterOutput(adapter, CmdOf(key))
        r     == read_pid(key, link, out)
        reply == send_command(link, out)
    IN  /\ t.pc = "send"
        /\ IF r.raised # "" \/ r.value = None
           THEN SetThread(i, Finished("crashed"))
           ELSE SetThread(i, [t EXCEPT !.pc = "for", !.k = t.k + 1, !.slow = FALSE,
                                  !.snapshot = DictSet(t.snapshot, key, r.value),
                                  !.log = t.log \o [j \in 1..Len(r.sent) |->
                                              [cmd |-> r.sent[j], reply |-> reply]]])
        /\ UNCHANGED <<stop_event, realtime_thread, link, adapter, caller, last_op>>

\* connector.send_command returns or raises; read_pid returns;
\* snapshot[k] = value
SendReturn(i) ==
    LET t     == threads[i]
        key   == t.selected_keys[t.k]
        out   == AdapterOutput(adapter, CmdOf(key))
        r     == read_pid(key, link, out)
        reply == send_command(link, out)
    IN  /\ t.pc = "send"
        /\ IF r.raised # ""
           THEN SetThread(i, Finished("crashed"))
           ELSE SetThread(i, [t EXCEPT !.pc = "for", !.k = t.k + 1, !.slow = FALSE,
                                  !.snapshot = DictSet(t.snapshot, key, r.value),
                                  !.log = t.log \o [j \in 1..Len(r.sent) |->
                                              [cmd |-> r.sent[j], reply |-> reply]]])
        /\ UNCHANGED <<stop_event, realtime_thread, link, adapter, caller, last_op>>

\* a worker that goes back to the loop test without the interval wait
CallbackReturn_nowait(i) ==
    LET t == threads[i]
    IN  /\ t.pc = "callback"
        /\ SetThread(i, [t EXCEPT !.pc = "while", !.slow = FALSE])
        /\ UNCHANGED <<stop_event, realtime_thread, link, adapter, caller, last_op>>

\* callback(snapshot) returns; the worker enters self._stop_event.wait(interval)
CallbackReturn(i) ==
    LET t == threads[i]
    IN  /\ t.pc = "callback"
        /\ SetThread(i, [t EXCEPT !.pc = "wait", !.slow = FALSE])
        /\ UNCHANGED <<stop_event, realtime_thread, link, adapter, caller, last_op>>

\* callback(snapshot) raises: nothing in _loop catches it, the thread ends
CallbackRaise(i) ==
    LET t == threads[i]
    IN  /\ t.pc = "callback"
        /\ SetThread(i, Finished("crashed"))
        /\ UNCHANGED <<stop_event, realtime_thread, link, adapter, caller, last_op>>

\* the interval passes while the worker is in self._stop_event.wait(interval)
\* with the event not set
IntervalElapses(i) ==
    LET t == threads[i]
    IN  /\ t.pc = "wait"
        /\ ~stop_event
        /\ SetThread(i, [t EXCEPT !.pc = "elapsed"])
        /\ UNCHANGED <<stop_event, realtime_thread, link, adapter, caller, last_op>>

\* self._stop_event.wait(interval) returns: the event is set or the
\* interval has passed
WaitReturn(i) ==
    LET t == threads[i]
    IN  /\ t.pc = "elapsed" \/ (t.pc = "wait" /\ stop_event)
        /\ SetThread(i, [t EXCEPT !.pc = "while"])
        /\ UNCHANGED <<stop_event, realtime_thread, link, adapter, caller, last_op>>

(***************************************************************************)
(* The caller of the reader's API                                          *)
(***************************************************************************)

Idle == [pc |-> "idle"]

\* what start_realtime needs to know of the call that returned before it
Before ==
    IF last_op.op = "stop"
    THEN IF last_op.timed_out THEN "stop_timeout"
         ELSE IF last_op.join_called THEN "stop_joined" ELSE "stop_idle"
    ELSE "other"

\* selected_keys = keys if keys else list(OBD_PIDS.keys())
SelectedKeys(keys) == IF keys # <<>> THEN keys ELSE RegistryKeys

\* start_realtime without its "already running" check
start_realtime_nocheck(a) ==
    /\ caller = Idle
    /\ Len(threads) < MaxThreads
    /\ stop_event' = FALSE
    /\ threads' = Append(threads,
           [pc |-> "while", callback |-> a.callback, interval |-> a.interval,
            selected_keys |-> SelectedKeys(a.keys), k |-> 0,
            snapshot |-> EmptyDict, log |-> <<>>, slow |-> FALSE,
            delivered |-> FALSE])
    /\ realtime_thread' = Len(threads) + 1
    /\ last_op' = [op |-> "start", args |-> a, created |-> TRUE,
                   raised |-> "", before |-> Before]
    /\ UNCHANGED <<link, adapter, caller>>

\* start_realtime without self._stop_event.clear()
start_realtime_noclear(a) ==
    /\ caller = Idle
    /\ IF WorkerAlive
       THEN /\ UNCHANGED <<stop_event, realtime_thread, threads>>
            /\ last_op' = [op |-> "start", args |-> a, created |-> FALSE,
                           raised |-> "", before |-> "other"]
       ELSE /\ Len(threads) < MaxThreads
            /\ UNCHANGED stop_event
            /\ threads' = Append(threads,
                   [pc |-> "while", callback |-> a.callback, interval |-> a.interval,
                    selected_keys |-> SelectedKeys(a.keys), k |-> 0,
                    snapshot |-> EmptyDict, log |-> <<>>, slow |-> FALSE,
                    delivered |-> FALSE])
            /\ realtime_thread' = Len(threads) + 1
            /\ last_op' = [op |-> "start", args |-> a, created |-> TRUE,
                           raised |-> "", before |-> Before]
    /\ UNCHANGED <<link, adapter, caller>>

\* OBDReader.start_realtime(callback, interval, keys)
start_realtime(a) ==
    /\ caller = Idle
    /\ IF WorkerAlive
       THEN /\ UNCHANGED <<stop_event, realtime_thread, threads>>
            /\ last_op' = [op |-> "start", args |-> a, created |-> FALSE,
                           raised |-> "", before |-> "other"]
       ELSE /\ Len(threads) < MaxThreads
            /\ stop_event' = FALSE
            /\ threads' = Append(threads,
                   [pc |-> "while", callback |-> a.callback, interval |-> a.interval,
                    selected_keys |-> SelectedKeys(a.keys), k |-> 0,
                    snapshot |-> EmptyDict, log |-> <<>>, slow |-> FALSE,
                    delivered |-> FALSE])
            /\ realtime_thread' = Len(threads) + 1
            /\ last_op' = [op |-> "start", args |-> a, created |-> TRUE,
                           raised |-> "", before |-> Before]
    /\ UNCHANGED <<link, adapter, caller>>

\* stop_realtime without self._stop_event.set()
stop_realtime_noset ==
    /\ caller = Idle
    /\ UNCHANGED stop_event
    /\ IF realtime_thread # 0
       THEN /\ caller' = [pc |-> "join"]
            /\ UNCHANGED last_op
       ELSE /\ last_op' = [op |-> "stop", join_called |-> FALSE, timed_out |-> FALSE]
            /\ UNCHANGED caller
    /\ UNCHANGED <<realtime_thread, threads, link, adapter>>

\* OBDReader.stop_realtime up to the join:  self._stop_event.set();
\* if self._realtime_thread: self._realtime_thread.join(timeout=5)
stop_realtime ==
    /\ caller = Idle
    /\ stop_event' = TRUE
    /\ IF realtime_thread # 0
       THEN /\ caller' = [pc |-> "join"]
            /\ UNCHANGED last_op
       ELSE /\ last_op' = [op |-> "stop", join_called |-> FALSE, timed_out |-> FALSE]
            /\ UNCHANGED caller
    /\ UNCHANGED <<realtime_thread, threads, link, adapter>>

\* a join that returns without waiting for the worker to end
JoinReturn_nowait ==
    /\ caller.pc = "join"
    /\ caller' = Idle
    /\ last_op' = [op |-> "stop", join_called |-> TRUE, timed_out |-> FALSE]
    /\ UNCHANGED <<stop_event, realtime_thread, threads, link, adapter>>

\* join returns because the worker thread has ended
JoinReturn ==
    /\ caller.pc = "join"
    /\ ~WorkerAlive
    /\ caller' = Idle
    /\ last_op' = [op |-> "stop", join_called |-> TRUE, timed_out |-> FALSE]
    /\ UNCHANGED <<stop_event, realtime_thread, threads, link, adapter>>

\* join returns because its timeout of 5 seconds has expired.  Time is not
\* modelled: the worker's own steps are short, and only a call it is
\* blocked in (connector.send_command or the callback, slow = TRUE) can
\* outlast the timeout
JoinTimeout ==
    /\ caller.pc = "join"
    /\ WorkerAlive
    /\ threads[realtime_thread].pc \in {"send", "callback"}
    /\ threads[realtime_thread].slow
    /\ caller' = Idle
    /\ last_op' = [op |-> "stop", join_called |-> TRUE, timed_out |-> TRUE]
    /\ UNCHANGED <<stop_event, realtime_thread, threads, link, adapter>>

\* OBDReader.read_all(), called from the caller's thread while no poller
\* worker is using the connector (the connector has a single owner)
ReadAll ==
    /\ caller = Idle
    /\ ~WorkerAlive
    /\ last_op' = [op |-> "read_all", lnk |-> link, adp |-> adapter,
                   result |-> read_all(link, adapter).results,
                   sent |-> read_all(link, adapter).sent]
    /\ UNCHANGED <<stop_event, realtime_thread, threads, link, adapter, caller>>

(***************************************************************************)
(* Specification of the poller                                             *)
(***************************************************************************)

\* OBDReader.__init__, with a connector in any state (the adapter is
\* never consulted through a link that is not open)
Init ==
    /\ stop_event = FALSE
    /\ realtime_thread = 0
    /\ threads = <<>>
    /\ link \in Links
    /\ adapter \in Adapters
    /\ link # "open" => adapter = "nodata"
    /\ caller = Idle
    /\ last_op = [op |-> "none"]

Next ==
    \/ \E a \in StartArgs : start_realtime(a)
    \/ stop_realtime
    \/ JoinReturn
    \/ JoinTimeout
    \/ ReadAll
    \/ \E i \in 1..Len(threads) : LoopTest(i)
    \/ \E i \in 1..Len(threads) : \E slow \in BOOLEAN : ForStep(i, slow)
    \/ \E i \in 1..Len(threads) : SendReturn(i)
    \/ \E i \in 1..Len(threads) : CallbackReturn(i)
    \/ \E i \in 1..Len(threads) : CallbackRaise(i)
    \/ \E i \in 1..Len(threads) : IntervalElapses(i)
    \/ \E i \in 1..Len(threads) : WaitReturn(i)

Spec == Init /\ [][Next]_vars

(***************************************************************************)
(* Direct calls: read_pid, clear_dtcs (obd/reader.py) and                  *)
(* OBDWriter.send_raw (obd/writer.py), each applied to one input           *)
(***************************************************************************)

\* str(exc) of the exception the connector raised
ExcText(exc) ==
    IF exc = "ConnectionError"
    THEN <<"N","o","t"," ","c","o","n","n","e","c","t","e","d"," ","t","o"," ",
           "O","B","D","2"," ","d","e","v","i","c","e",".">>
    ELSE <<"w","r","i","t","e"," ","f","a","i","l","e","d">>

ErrorPrefix == <<"E","R","R","O","R",":"," ">>

\* OBDReader.clear_dtcs: raised = the exception that leaves it ("" = none)
clear_dtcs(lnk, output) ==
    LET r == send_command(lnk, output)
    IN  IF r.exc # ""
        THEN [raised |-> "", value |-> ErrorPrefix \o ExcText(r.exc)]
        ELSE [raised |-> "", value |-> r.raw]

\* OBDWriter.send_raw: return self.connector.send_command(command)
send_raw(lnk, output) ==
    LET r == send_command(lnk, output)
    IN  [raised |-> r.exc, value |-> r.raw]

\* at most this many pieces are concatenated into one adapter output
MaxPieces == 3

RECURSIVE Flatten(_)
Flatten(ps) == IF ps = <<>> THEN <<>> ELSE Head(ps) \o Flatten(Tail(ps))

UnknownKey == "DOES_NOT_EXIST"

\* the PID byte the pieces are built around
PidOf(key) == IF Registered(key) THEN Info(key).pid ELSE <<"0","D">>

\* the pieces adapter outputs are made of, for a request of key: the
\* response mode, the requested PID, another PID, one data byte with and
\* without a following blank, four data bytes, NO DATA, the prompt
Pieces(key) ==
    { <<"4","1"," ">>,
      PidOf(key) \o <<" ">>,
      (IF PidOf(key) = <<"0","C">> THEN <<"0","D">> ELSE <<"0","C">>) \o <<" ">>,
      <<"6","4"," ">>,
      <<"6","4">>,
      <<"8","3"," ","0","0"," ","0","0"," ","0","0"," ">>,
      <<"N","O"," ","D","A","T","A">>,
      <<">">> }

Outputs(key) ==
    { Flatten(ps) : ps \in UNION { [1..n -> Pieces(key)] : n \in 0..MaxPieces } }

\* adapter outputs for the write commands
WriteOutputs ==
    { <<>>, <<"O","K","\r","\r",">">>, <<"4","4","\r","\r",">">>, <<"?","\r","\r",">">> }

\* the raw commands send_raw is called with: AT Z, 04, 010C
RawCommands ==
    { <<"A","T"," ","Z">>, <<"0","4">>, <<"0","1","0","C">> }

RegistryKeySet == {OBD_PIDS[i].key : i \in 1..Len(OBD_PIDS)}


\* the values of one byte
Bytes == 0..255

\* second bytes tried for the two-byte PIDs that are not read over the
\* whole range, and further bytes of the four-byte PID
SampleBytes == {0, 1, 128, 255}

FlagBytes == {0, 255}

\* the PIDs whose two bytes are drawn from the whole range
FullRangeKeys == {"RPM", "EVAP_PRESSURE"}

\* the byte lists of length n the decoder of key is applied to
ByteLists(key, n) ==
    CASE n = 0 -> { <<>> }
      [] n = 1 -> { <<b0>> : b0 \in Bytes }
      [] n = 2 -> { <<x[1], x[2]>> :
                      x \in Bytes \X (IF key \in FullRangeKeys THEN Bytes ELSE SampleBytes) }
      [] n = 3 -> { <<x[1], x[2], x[3]>> : x \in Bytes \X SampleBytes \X FlagBytes }
      [] n = 4 -> { <<x[1], x[2], x[3], x[4]>> :
                      x \in Bytes \X SampleBytes \X FlagBytes \X FlagBytes }

\* the byte lists shorter than the PID declares
ShortByteLists(key) == UNION { ByteLists(key, n) : n \in 0..(Info(key).bytes - 1) }

\* the methods class OBDReader defines
OBDReaderMethods ==
    { "read_pid", "read_all", "read_supported_pids", "read_dtcs",
      "read_pending_dtcs", "clear_dtcs", "read_freeze_frame", "read_vin",
      "read_ecu_name", "read_calibration_id", "get_protocol",
      "get_protocol_number", "get_elm_version", "get_battery_voltage",
      "start_realtime", "stop_realtime" }

\* reader.<name>() for a method without arguments: the attribute lookup
\* raises AttributeError when the class has no such method
CallReader(name, lnk, output) ==
    IF name \notin OBDReaderMethods
    THEN [raised |-> "AttributeError", value |-> None]
    ELSE clear_dtcs(lnk, output)

\* adapter outputs for the monitor-status request 0101
MilOutputs ==
    { <<>>, <<"N","O"," ","D","A","T","A">>,
      <<"4","1"," ","0","1"," ","8","1"," ","0","0"," ","0","0"," ","0","0">>,
      <<"4","1"," ","0","1"," ","0","3"," ","0","7"," ","e","5"," ","0","0","\r","\r",">">> }

InitCalls ==
    /\ stop_event = FALSE
    /\ realtime_thread = 0
    /\ threads = <<>>
    /\ adapter = "nodata"
    /\ last_op = [op |-> "none"]
    /\ link \in Links
    /\ \/ \E key \in RegistryKeySet \cup {UnknownKey} : \E o \in Outputs(key) :
             caller = [pc |-> "call", op |-> "read_pid", key |-> key, cmd |-> <<>>,
                       output |-> o]
       \/ \E o \in WriteOutputs :
             caller = [pc |-> "call", op |-> "clear_dtcs", key |-> "", cmd |-> <<"0","4">>,
                       output |-> o]
       \/ \E c \in RawCommands : \E o \in WriteOutputs :
             caller = [pc |-> "call", op |-> "send_raw", key |-> "", cmd |-> c,
                       output |-> o]
       \/ \E o \in MilOutputs :
             caller = [pc |-> "call", op |-> "read_mil_status", key |-> "", cmd |-> <<>>,
                       output |-> o]
       \/ \E key \in RegistryKeySet : \E b \in ShortByteLists(key) :
             caller = [pc |-> "call", op |-> "decode", key |-> key, cmd |-> <<>>,
                       output |-> <<>>, bytes |-> b]
    /\ link # "open" => caller.output = <<>>
    /\ caller.op = "decode" => link = "open"

\* reader.read_pid(key) is called and returns (or raises)
DoReadPid ==
    /\ caller.pc = "call" /\ caller.op = "read_pid"
    /\ last_op' = [op |-> "read_pid", key |-> caller.key, lnk |-> link,
                   output |-> caller.output,
                   result |-> read_pid(caller.key, link, caller.output)]
    /\ caller' = Idle
    /\ UNCHANGED <<stop_event, realtime_thread, threads, link, adapter>>

\* reader.clear_dtcs() is called and returns
DoClearDtcs ==
    /\ caller.pc = "call" /\ caller.op = "clear_dtcs"
    /\ last_op' = [op |-> "clear_dtcs", cmd |-> caller.cmd, lnk |-> link,
                   output |-> caller.output,
                   result |-> clear_dtcs(link, caller.output)]
    /\ caller' = Idle
    /\ UNCHANGED <<stop_event, realtime_thread, threads, link, adapter>>

\* writer.send_raw(command) is called and returns (or raises)
DoSendRaw ==
    /\ caller.pc = "call" /\ caller.op = "send_raw"
    /\ last_op' = [op |-> "send_raw", cmd |-> caller.cmd, lnk |-> link,
                   output |-> caller.output,
                   result |-> send_raw(link, caller.output)]
    /\ caller' = Idle
    /\ UNCHANGED <<stop_event, realtime_thread, threads, link, adapter>>

\* reader.read_mil_status() is called, as the tests, the web API and the
\* command-line interface call it
DoReadMilStatus ==
    /\ caller.pc = "call" /\ caller.op = "read_mil_status"
    /\ last_op' = [op |-> "read_mil_status", lnk |-> link,
                   output |-> caller.output,
                   result |-> CallReader("read_mil_status", link, caller.output)]
    /\ caller' = Idle
    /\ UNCHANGED <<stop_event, realtime_thread, threads, link, adapter>>

\* OBD_PIDS[key]["parse"](bytes) is called and returns or raises
DoDecode ==
    /\ caller.pc = "call" /\ caller.op = "decode"
    /\ last_op' = [op |-> "decode", key |-> caller.key, bytes |-> caller.bytes,
                   result |-> Decode(Info(caller.key).parse, caller.bytes)]
    /\ caller' = Idle
    /\ UNCHANGED <<stop_event, realtime_thread, threads, link, adapter>>

NextCalls ==
    \/ DoReadPid
    \/ DoClearDtcs
    \/ DoSendRaw
    \/ DoReadMilStatus
    \/ DoDecode

SpecCalls == InitCalls /\ [][NextCalls]_vars

(***************************************************************************)
(* DTC and VIN parsing helpers (obd/reader.py)                             *)
(***************************************************************************)

\* _DTC_FIRST_CHAR, indexed by system + 1
_DTC_FIRST_CHAR == <<"P", "C", "B", "U">>

\* f"{prefix}{digit2}{digit3:X}{digit4:X}{digit5:X}" for one byte pair
DtcString(high, low) ==
    LET system == (high % 256) \div 64
        digit2 == (high % 64) \div 16
        digit3 == high % 16
        digit4 == (low % 256) \div 16
        digit5 == low % 16
    IN  <<_DTC_FIRST_CHAR[system + 1]>> \o FormatX(digit2) \o FormatX(digit3)
            \o FormatX(digit4) \o FormatX(digit5)

\* a loop that ends at the first all-zero pair instead of skipping it
RECURSIVE DtcLoop_break(_, _)
DtcLoop_break(hex_tokens, i) ==
    IF i + 1 > Len(hex_tokens) THEN <<>>
    ELSE LET high == IntHex(hex_tokens[i])
             low  == IntHex(hex_tokens[i + 1])
         IN  IF high = 0 /\ low = 0
             THEN <<>>
             ELSE <<DtcString(high, low)>> \o DtcLoop_break(hex_tokens, i + 2)

\* a loop that emits a code for the all-zero pair too
RECURSIVE DtcLoop_nozero(_, _)
DtcLoop_nozero(hex_tokens, i) ==
    IF i + 1 > Len(hex_tokens) THEN <<>>
    ELSE <<DtcString(IntHex(hex_tokens[i]), IntHex(hex_tokens[i + 1]))>>
             \o DtcLoop_nozero(hex_tokens, i + 2)

\* the while loop of _parse_dtcs from (1-based) position i on
RECURSIVE DtcLoop(_, _)
DtcLoop(hex_tokens, i) ==
    IF i + 1 > Len(hex_tokens) THEN <<>>
    ELSE LET high == IntHex(hex_tokens[i])
             low  == IntHex(hex_tokens[i + 1])
         IN  IF high = 0 /\ low = 0
             THEN DtcLoop(hex_tokens, i + 2)
             ELSE <<DtcString(high, low)>> \o DtcLoop(hex_tokens, i + 2)

_parse_dtcs(raw) ==
    LET tokens     == Split(ReplaceCRLF(Upper(Strip(raw))))
        hex_tokens == HexTokens(tokens)
        body       == IF hex_tokens # <<>> /\ hex_tokens[1] \in {<<"4","3">>, <<"4","7">>}
                      THEN Tail(hex_tokens)
                      ELSE hex_tokens
    IN  DtcLoop(body, 1)

\* OBDReader.read_dtcs (command 03) and read_pending_dtcs (command 07):
\* the parsed reply, or [] when the connector raises
read_dtcs(lnk, output) ==
    LET r == send_command(lnk, output)
    IN  IF r.exc # "" THEN <<>> ELSE _parse_dtcs(r.raw)

\* the characters chr(0x20) .. chr(0x7E), in order (chr(0x60), the grave
\* accent, is spelled "grave")
Printable == <<
    " ", "!", "\"", "#", "$", "%", "&", "'", "(", ")", "*", "+", ",", "-", ".", "/",
    "0", "1", "2", "3", "4", "5", "6", "7", "8", "9", ":", ";", "<", "=", ">", "?",
    "@", "A", "B", "C", "D", "E", "F", "G", "H", "I", "J", "K", "L", "M", "N", "O",
    "P", "Q", "R", "S", "T", "U", "V", "W", "X", "Y", "Z", "[", "\\", "]", "^", "_",
    "grave", "a", "b", "c", "d", "e", "f", "g", "h", "i", "j", "k", "l", "m", "n", "o",
    "p", "q", "r", "s", "t", "u", "v", "w", "x", "y", "z", "{", "|", "}", "~" >>

\* chr(val) for 0x20 <= val <= 0x7E
Chr(val) == Printable[val - 31]

\* ord(c) of a printable character
Ord(c) == (CHOOSE i \in 1..Len(Printable) : Printable[i] = c) + 31

\* the "N/A" sentinel
NotAvailable == <<"N", "/", "A">>

\* the for loop of _parse_vin over the hex tokens
RECURSIVE VinChars(_, _)
VinChars(hex_tokens, collecting) ==
    IF hex_tokens = <<>> THEN <<>>
    ELSE LET t   == Head(hex_tokens)
             val == IntHex(t)
         IN  IF t = <<"4","9">> THEN VinChars(Tail(hex_tokens), TRUE)
             ELSE IF collecting /\ 32 <= val /\ val <= 126
                  THEN <<Chr(val)>> \o VinChars(Tail(hex_tokens), collecting)
                  ELSE VinChars(Tail(hex_tokens), collecting)

\* _parse_vin collecting from the first token on, marker or not
_parse_vin_nomarker(raw) ==
    LET tokens     == Split(ReplaceCRLF(Upper(raw)))
        hex_tokens == HexTokens(tokens)
        vin        == Strip(VinChars(hex_tokens, TRUE))
    IN  IF Len(vin) >= 5 THEN vin ELSE NotAvailable

_parse_vin(raw) ==
    LET tokens     == Split(ReplaceCRLF(Upper(raw)))
        hex_tokens == HexTokens(tokens)
        vin        == Strip(VinChars(hex_tokens, FALSE))
    IN  IF Len(vin) >= 5 THEN vin ELSE NotAvailable

\* the list comprehension of _parse_ascii_info over the hex tokens
RECURSIVE AsciiChars(_)
AsciiChars(hex_tokens) ==
    IF hex_tokens = <<>> THEN <<>>
    ELSE LET val == IntHex(Head(hex_tokens))
         IN  IF 32 <= val /\ val <= 126
             THEN <<Chr(val)>> \o AsciiChars(Tail(hex_tokens))
             ELSE AsciiChars(Tail(hex_tokens))

\* _parse_ascii_info with the minimum length of the VIN parser
_parse_ascii_info_min5(raw) ==
    LET tokens     == Split(ReplaceCRLF(Upper(raw)))
        hex_tokens == HexTokens(tokens)
        text       == Strip(AsciiChars(hex_tokens))
    IN  IF Len(text) >= 5 THEN text ELSE NotAvailable

_parse_ascii_info(raw) ==
    LET tokens     == Split(ReplaceCRLF(Upper(raw)))
        hex_tokens == HexTokens(tokens)
        text       == Strip(AsciiChars(hex_tokens))
    IN  IF text # <<>> THEN text ELSE NotAvailable

\* OBDReader.read_ecu_name (command 090A) and read_calibration_id (0904):
\* the parsed reply, or "N/A" when the connector raises
read_ascii_info(lnk, output) ==
    LET r == send_command(lnk, output)
    IN  IF r.exc # "" THEN NotAvailable ELSE _parse_ascii_info(r.raw)

\* the commands of read_vin, in the order of its statements
VinCommands == << <<"A","T"," ","H","1">>, <<"0","9","0","2">>, <<"A","T"," ","H","0">> >>

\* OBDReader.read_vin against a connector whose fail_at-th send_command
\* raises (0 = none raises): the send_command calls made, and the value
\* returned
read_vin(fail_at, output) ==
    IF fail_at = 0
    THEN [sent |-> VinCommands, value |-> _parse_vin(send_command("open", output).raw)]
    ELSE [sent |-> SubSeq(VinCommands, 1, fail_at), value |-> NotAvailable]

(***************************************************************************)
(* The parsers applied to adapter replies: _parse_hex_response,            *)
(* _parse_dtcs and _parse_vin, each applied to one reply                   *)
(***************************************************************************)

\* at most this many pieces are concatenated into one reply
MaxReplyPieces == 3

RepliesOf(pieces) ==
    { Flatten(ps) : ps \in UNION { [1..n -> pieces] : n \in 0..MaxReplyPieces } }

\* pieces of replies to a PID request: response modes 41 and 42, PIDs in
\* upper and lower case, data bytes, a CAN header, a frame broken over
\* lines, NO DATA, the prompt
HexPieces ==
    { <<"4","1"," ">>, <<"4","2"," ">>, <<"0","C"," ">>, <<"0","d"," ">>,
      <<"1","A"," ","F","8">>, <<"7","E","8"," ">>,
      <<"4","1","\r","0","c","\n">>, <<"N","O"," ","D","A","T","A">>, <<">">> }

\* the (mode, pid) requests the frame parser is called with
HexRequests ==
    { <<<<"0","1">>, <<"0","C">>>>, <<<<"0","1">>, <<"0","D">>>>,
      <<<<"0","2">>, <<"0","c">>>> }

\* pieces of replies to the DTC requests 03 and 07
DtcPieces ==
    { <<"4","3"," ">>, <<"4","7"," ">>, <<"0","1"," ","4","3"," ">>,
      <<"0","0"," ","0","0"," ">>, <<"0","4"," ","0","5"," ">>,
      <<"c","1"," ","2","3","\r">>, <<"7","F"," ">>,
      <<"N","O"," ","D","A","T","A">>, <<">">> }

\* pieces of replies to the VIN request 0902 that carry no VIN
VinPieces ==
    { <<"4","9"," ">>, <<"0","2"," ">>, <<"3","1"," ","3","2"," ">>,
      <<"4","7"," ","4","8"," ","4","A"," ">>, <<"2","0"," ">>,
      <<"0","0"," ","0","0"," ">>, <<"7","F"," ">>,
      <<"N","O"," ","D","A","T","A">>, <<"4","b">> }

\* vehicle identification numbers: 17 characters, none of I, O, Q
Vins ==
    { <<"1","G","1","J","C","5","S","H","3","A","4","1","0","0","0","0","1">>,
      <<"W","P","0","Z","Z","Z","9","9","Z","T","S","3","9","2","1","2","4">> }

\* " ".join(format(ord(c), "02X") for c in s), with a trailing blank
RECURSIVE HexOf(_)
HexOf(s) ==
    IF s = <<>> THEN <<>> ELSE Format02X(Ord(Head(s))) \o <<" ">> \o HexOf(Tail(s))

\* how the adapter frames the reply to 0902:
\*   "bare"     49 02 and the 17 bytes (the reply of the unit test)
\*   "count"    49 02 01 and the 17 bytes
\*   "lines"    ELM327 multi-line reply with headers off:
\*              014 / 0: 49 02 01 xx xx xx / 1: 7 bytes / 2: 7 bytes
\*   "headers"  ISO 15765 frames with headers on (AT H1, as read_vin sets):
\*              7E8 10 14 49 02 01 xx xx xx / 7E8 21 7 bytes / 7E8 22 7 bytes
Framings == {"bare", "count", "lines", "headers"}

VinReply(vin, framing) ==
    LET first == HexOf(SubSeq(vin, 1, 3))
        mid   == HexOf(SubSeq(vin, 4, 10))
        last  == HexOf(SubSeq(vin, 11, 17))
        head  == <<"4","9"," ","0","2"," ">>
        one   == <<"0","1"," ">>
    IN  CASE framing = "bare"  -> head \o HexOf(vin)
          [] framing = "count" -> head \o one \o HexOf(vin)
          [] framing = "lines" ->
                 <<"0","1","4","\r","0",":"," ">> \o head \o one \o first
                     \o <<"\r","1",":"," ">> \o mid
                     \o <<"\r","2",":"," ">> \o last \o <<"\r","\r",">">>
          [] framing = "headers" ->
                 <<"7","E","8"," ","1","0"," ","1","4"," ">> \o head \o one \o first
                     \o <<"\r","7","E","8"," ","2","1"," ">> \o mid
                     \o <<"\r","7","E","8"," ","2","2"," ">> \o last
                     \o <<"\r","\r",">">>

NoVin == <<>>

\* pieces of replies to the requests 090A and 0904: the response mode, the
\* PID, text bytes in both cases, blanks, bytes that are not printable,
\* NO DATA, the prompt
AsciiPieces ==
    { <<"4","9"," ">>, <<"0","A"," ">>, <<"4","5"," ","4","3"," ","5","5"," ">>,
      <<"2","0"," ">>, <<"6","b","\r">>, <<"0","0"," ","7","F"," ">>,
      <<"7","e"," ">>, <<"N","O"," ","D","A","T","A">>, <<"\r","\r",">">> }

\* the calls made on the reader (the others are calls of the parsers)
ReaderCalls == {"read_dtcs", "read_pending_dtcs", "read_ecu_name", "read_calibration_id"}

\* how the link fails during a call
Failures == {"closed", "error"}

InitParse ==
    /\ stop_event = FALSE
    /\ realtime_thread = 0
    /\ threads = <<>>
    /\ link \in Links
    /\ adapter = "nodata"
    /\ last_op = [op |-> "none"]
    /\ \/ \E r \in RepliesOf(HexPieces) : \E q \in HexRequests :
             caller = [pc |-> "call", op |-> "_parse_hex_response", raw |-> r,
                       mode |-> q[1], pid |-> q[2], vin |-> NoVin]
       \/ \E r \in RepliesOf(DtcPieces) :
             \E op \in {"_parse_dtcs", "read_dtcs", "read_pending_dtcs"} :
                caller = [pc |-> "call", op |-> op, raw |-> r,
                          mode |-> <<>>, pid |-> <<>>, vin |-> NoVin]
       \/ \E r \in RepliesOf(VinPieces) :
             caller = [pc |-> "call", op |-> "_parse_vin", raw |-> r,
                       mode |-> <<>>, pid |-> <<>>, vin |-> NoVin]
       \/ \E v \in Vins : \E f \in Framings :
             caller = [pc |-> "call", op |-> "_parse_vin", raw |-> VinReply(v, f),
                       mode |-> <<>>, pid |-> <<>>, vin |-> v]
       \/ \E r \in RepliesOf(AsciiPieces) :
             \E op \in {"_parse_ascii_info", "read_ecu_name", "read_calibration_id"} :
                caller = [pc |-> "call", op |-> op, raw |-> r,
                          mode |-> <<>>, pid |-> <<>>, vin |-> NoVin]
       \/ \E v \in Vins : \E f \in Framings :
             \E n \in 0..Len(VinCommands) : \E how \in Failures :
                caller = [pc |-> "call", op |-> "read_vin", raw |-> VinReply(v, f),
                          mode |-> <<>>, pid |-> <<>>, vin |-> v,
                          fail_at |-> n, fails_as |-> how]
    /\ link # "open" => caller.op \in ReaderCalls /\ caller.raw = <<>>

\* _parse_hex_response(raw, mode, pid) is called and returns
DoParseHex ==
    /\ caller.pc = "call" /\ caller.op = "_parse_hex_response"
    /\ last_op' = [op |-> "_parse_hex_response", raw |-> caller.raw,
                   mode |-> caller.mode, pid |-> caller.pid,
                   result |-> _parse_hex_response(caller.raw, caller.mode, caller.pid)]
    /\ caller' = Idle
    /\ UNCHANGED <<stop_event, realtime_thread, threads, link, adapter>>

\* _parse_dtcs(raw) is called and returns
DoParseDtcs ==
    /\ caller.pc = "call" /\ caller.op = "_parse_dtcs"
    /\ last_op' = [op |-> "_parse_dtcs", raw |-> caller.raw,
                   result |-> _parse_dtcs(caller.raw)]
    /\ caller' = Idle
    /\ UNCHANGED <<stop_event, realtime_thread, threads, link, adapter>>

\* _parse_vin(raw) is called and returns
DoParseVin ==
    /\ caller.pc = "call" /\ caller.op = "_parse_vin"
    /\ last_op' = [op |-> "_parse_vin", raw |-> caller.raw, vin |-> caller.vin,
                   result |-> _parse_vin(caller.raw)]
    /\ caller' = Idle
    /\ UNCHANGED <<stop_event, realtime_thread, threads, link, adapter>>

\* reader.read_dtcs() or reader.read_pending_dtcs() is called and returns
DoReadDtcs ==
    /\ caller.pc = "call" /\ caller.op \in {"read_dtcs", "read_pending_dtcs"}
    /\ last_op' = [op |-> caller.op, lnk |-> link, output |-> caller.raw,
                   sent |-> <<IF caller.op = "read_dtcs" THEN <<"0","3">> ELSE <<"0","7">>>>,
                   result |-> read_dtcs(link, caller.raw)]
    /\ caller' = Idle
    /\ UNCHANGED <<stop_event, realtime_thread, threads, link, adapter>>

\* _parse_ascii_info(raw) is called and returns
DoParseAscii ==
    /\ caller.pc = "call" /\ caller.op = "_parse_ascii_info"
    /\ last_op' = [op |-> "_parse_ascii_info", raw |-> caller.raw,
                   result |-> _parse_ascii_info(caller.raw)]
    /\ caller' = Idle
    /\ UNCHANGED <<stop_event, realtime_thread, threads, link, adapter>>

\* reader.read_ecu_name() or reader.read_calibration_id() is called and
\* returns
DoReadAscii ==
    /\ caller.pc = "call" /\ caller.op \in {"read_ecu_name", "read_calibration_id"}
    /\ last_op' = [op |-> caller.op, lnk |-> link, output |-> caller.raw,
                   sent |-> <<IF caller.op = "read_ecu_name" THEN <<"0","9","0","A">>
                              ELSE <<"0","9","0","4">>>>,
                   result |-> read_ascii_info(link, caller.raw)]
    /\ caller' = Idle
    /\ UNCHANGED <<stop_event, realtime_thread, threads, link, adapter>>

\* reader.read_vin() is called and returns; the link is open when it is
\* called and fails at the send_command call number fail_at (0 = never)
DoReadVin ==
    /\ caller.pc = "call" /\ caller.op = "read_vin"
    /\ link = "open"
    /\ link' = IF caller.fail_at = 0 THEN link ELSE caller.fails_as
    /\ last_op' = [op |-> "read_vin", output |-> caller.raw, vin |-> caller.vin,
                   fail_at |-> caller.fail_at,
                   sent |-> read_vin(caller.fail_at, caller.raw).sent,
                   result |-> read_vin(caller.fail_at, caller.raw).value]
    /\ caller' = Idle
    /\ UNCHANGED <<stop_event, realtime_thread, threads, adapter>>

NextParse ==
    \/ DoParseHex
    \/ DoParseDtcs
    \/ DoParseVin
    \/ DoReadDtcs
    \/ DoParseAscii
    \/ DoReadAscii
    \/ DoReadVin

SpecParse == InitParse /\ [][NextParse]_vars

(***************************************************************************)
(* The value decoders applied to byte lists of every length up to the     *)
(* declared one: info["parse"](b)                                          *)
(***************************************************************************)

InitDecode ==
    /\ stop_event = FALSE
    /\ realtime_thread = 0
    /\ threads = <<>>
    /\ link = "open"
    /\ adapter = "nodata"
    /\ last_op = [op |-> "none"]
    /\ \E key \in RegistryKeySet : \E n \in 0..Info(key).bytes :
           \E b \in ByteLists(key, n) :
               caller = [pc |-> "call", op |-> "decode", key |-> key, bytes |-> b]

NextDecode == DoDecode

SpecDecode == InitDecode /\ [][NextDecode]_vars

(***************************************************************************)
(* The trip computer of the command-line interface (cli/interface.py).     *)
(* Here caller is the CLIInterface object and the thread running its       *)
(* commands: pc = "repl" at the prompt, "dash" inside run_dashboard; the   *)
(* poller worker is represented by the snapshots it delivers to the        *)
(* dashboard's callback; last_op is the run_dashboard call made last, with *)
(* the snapshots delivered since.  Times are whole seconds, and the        *)
(* distance is kept in units of 1/7200 km, so that                         *)
(* (prev_speed + speed) / 2 / 3600 * dt is the integer                     *)
(* (prev_speed + speed) * dt.                                              *)
(***************************************************************************)

\* run_dashboard is called at most this many times
MaxRuns == 2

\* at most this many snapshots are delivered in one dashboard run
MaxSnapshots == 2

\* time.time() goes up to this many seconds
MaxClock == 3

\* Python's None for a time or a speed
NoValue == -1

\* the values of snapshot["SPEED"]: None, or the byte the SPEED PID carries
Speeds == {NoValue, 0, 60, 120}

RECURSIVE Sum(_)
Sum(s) == IF s = <<>> THEN 0 ELSE Head(s) + Sum(Tail(s))

\* max(samples, default=0)
Max(s) ==
    IF s = <<>> THEN 0
    ELSE s[CHOOSE i \in 1..Len(s) : \A j \in 1..Len(s) : s[j] <= s[i]]

\* CLIInterface.__init__: the trip computer state
NewCli ==
    [pc |-> "repl", runs |-> 0, now |-> 0,
     _trip_start |-> NoValue, _prev_speed |-> 0, _prev_sample_time |-> NoValue,
     _trip_distance_km |-> 0, _speed_samples |-> <<>>]

\* CLIInterface._update_trip(snapshot), the snapshot carrying speed and the
\* timestamp now
_update_trip(cli, speed, now) ==
    LET dt == now - cli._prev_sample_time
    IN  IF speed # NoValue
        THEN [cli EXCEPT
                !._speed_samples = Append(@, speed),
                !._trip_distance_km =
                    IF cli._prev_sample_time # NoValue
                    THEN @ + (cli._prev_speed + speed) * dt
                    ELSE @,
                !._prev_speed = speed,
                !._prev_sample_time = now]
        ELSE [cli EXCEPT !._prev_sample_time = now]

\* CLIInterface._trip_summary(): the numbers it formats (the average as
\* sum / count, 0 when there is no sample)
_trip_summary(cli) ==
    [elapsed  |-> cli.now - (IF cli._trip_start # NoValue THEN cli._trip_start ELSE cli.now),
     distance |-> cli._trip_distance_km,
     avg_sum  |-> Sum(cli._speed_samples),
     avg_cnt  |-> Len(cli._speed_samples),
     max      |-> Max(cli._speed_samples),
     samples  |-> Len(cli._speed_samples)]

\* the 'dash' (log_csv = False) or 'log' (log_csv = True) command:
\* run_dashboard up to reader.start_realtime(_on_snapshot, interval)
run_dashboard(log_csv) ==
    /\ caller.pc = "repl"
    /\ caller.runs < MaxRuns
    /\ caller' = [caller EXCEPT !.pc = "dash", !.runs = @ + 1,
                                !._trip_start = caller.now]
    /\ stop_event' = FALSE
    /\ last_op' = [op |-> "run_dashboard", log_csv |-> log_csv, snapshots |-> <<>>]
    /\ UNCHANGED <<realtime_thread, threads, link, adapter>>

\* the worker calls _on_snapshot(snapshot): self._update_trip(snapshot)
_on_snapshot(speed) ==
    /\ caller.pc = "dash"
    /\ Len(last_op.snapshots) < MaxSnapshots
    /\ caller' = _update_trip(caller, speed, caller.now)
    /\ last_op' = [last_op EXCEPT !.snapshots =
                       Append(@, [SPEED |-> speed, _timestamp |-> caller.now])]
    /\ UNCHANGED <<stop_event, realtime_thread, threads, link, adapter>>

\* Ctrl+C in the dashboard: finally: self.reader.stop_realtime()
KeyboardInterrupt ==
    /\ caller.pc = "dash"
    /\ caller' = [caller EXCEPT !.pc = "repl"]
    /\ stop_event' = TRUE
    /\ UNCHANGED <<realtime_thread, threads, link, adapter, last_op>>

\* a second passes
ClockTick ==
    /\ caller.now < MaxClock
    /\ caller' = [caller EXCEPT !.now = @ + 1]
    /\ UNCHANGED <<stop_event, realtime_thread, threads, link, adapter, last_op>>

InitTrip ==
    /\ stop_event = FALSE
    /\ realtime_thread = 0
    /\ threads = <<>>
    /\ link = "open"
    /\ adapter = "positive"
    /\ last_op = [op |-> "none"]
    /\ caller = NewCli

NextTrip ==
    \/ \E log_csv \in BOOLEAN : run_dashboard(log_csv)
    \/ \E speed \in Speeds : _on_snapshot(speed)
    \/ KeyboardInterrupt
    \/ ClockTick

SpecTrip == InitTrip /\ [][NextTrip]_vars

(***************************************************************************)
(* Properties                                                             *)
(***************************************************************************)

Range(seq) == {seq[i] : i \in 1..Len(seq)}

\* the hex tokens of a reply, as the frame parser sees them
ReplyTokens(raw) == HexTokens(Split(ReplaceCRLF(Upper(Strip(raw)))))

\* a reply that carries no complete positive answer for key: no 41 token,
\* or the token after the first 41 is missing or is not the PID, or fewer
\* data bytes follow than the PID declares
Malformed(raw, key) ==
    LET toks == ReplyTokens(raw)
        at   == {p \in 1..Len(toks) : toks[p] = <<"4","1">>}
    IN  \/ at = {}
        \/ LET f == CHOOSE p \in at : \A q \in at : p <= q
           IN  \/ f + 1 > Len(toks)
               \/ toks[f + 1] # Info(key).pid
               \/ Len(toks) - (f + 1) < Info(key).bytes

\* a connector reply from which read_pid gets no value
ReplyFailed(reply, key) == reply.exc # "" \/ Malformed(reply.raw, key)

StartsWith(str, prefix) ==
    Len(str) >= Len(prefix) /\ SubSeq(str, 1, Len(prefix)) = prefix

HasUnknownKey(keys) == \E j \in 1..Len(keys) : ~Registered(keys[j])

\* C1: a start_realtime call made while the worker is alive changes
\* nothing: no thread is created, the stored thread object and its
\* callback, interval and key list are the ones of the first call
C1_StartWhileAliveIsNoOp ==
    [][ (WorkerAlive /\ last_op'.op = "start" /\ last_op' # last_op)
          => /\ threads' = threads
             /\ realtime_thread' = realtime_thread
             /\ stop_event' = stop_event
             /\ ~last_op'.created ]_vars

C1_Witness ==
    /\ last_op.op = "start" /\ ~last_op.created
    /\ WorkerAlive
    /\ Len(threads) = 1
    /\ threads[realtime_thread].callback # last_op.args.callback

\* C2: at most one worker thread is alive, whatever start_realtime and
\* stop_realtime calls were made and however stop's join ended
C2_AtMostOneWorker == Cardinality(AliveThreads) <= 1

C2_Witness ==
    /\ Len(threads) = 2
    /\ Cardinality(AliveThreads) = 1
    /\ last_op.op = "stop" /\ last_op.timed_out

\* C3 as stated: a stop_realtime that joined the worker returns before the
\* join timeout, with the worker gone
C3_StopAlwaysJoins ==
    (last_op.op = "stop" /\ last_op.join_called)
        => (~last_op.timed_out /\ ~WorkerAlive)

\* C3 amended: stop_realtime returns with the cancellation flag set and
\* either the worker has ended, or the join timed out on a worker that is
\* blocked in a connector call or in the callback
C3_StopReturns ==
    [][ (caller.pc = "join" /\ caller'.pc = "idle")
          => /\ stop_event'
             /\ last_op'.op = "stop"
             /\ \/ ~WorkerAlive' /\ ~last_op'.timed_out
                \/ /\ last_op'.timed_out
                   /\ threads'[realtime_thread'].pc \in {"send", "callback"} ]_vars

C3_Witness ==
    /\ last_op.op = "stop" /\ last_op.join_called /\ ~last_op.timed_out
    /\ Len(threads) >= 1
    /\ ~WorkerAlive
    /\ stop_event

C5_SnapshotHasAllKeys ==
    \A i \in 1..Len(threads) :
        threads[i].pc = "callback"
            => DOMAIN threads[i].snapshot
                   = Range(threads[i].selected_keys) \cup {"_timestamp"}

\* C6: read_pid of a key that is not registered raises ValueError and
\* sends nothing to the connector
C6_UnknownKeyRaises ==
    (last_op.op = "read_pid" /\ ~Registered(last_op.key))
        => (last_op.result.raised = "ValueError" /\ last_op.result.sent = <<>>)

C6_Witness ==
    /\ last_op.op = "read_pid" /\ last_op.key = UnknownKey
    /\ last_op.lnk = "open"
    /\ last_op.output = <<"4","1"," ","0","D"," ","6","4"," ">>

\* C7: start_realtime called with a key that is not registered raises the
\* unknown-key error to its caller
C7_StartSurfacesUnknownKey ==
    (last_op.op = "start" /\ HasUnknownKey(last_op.args.keys))
        => last_op.raised = "ValueError"

\* C8: read_pid of a registered key never raises, and returns None when
\* the connector raises or the reply is malformed
C8_BadReplyGivesNone ==
    (last_op.op = "read_pid" /\ Registered(last_op.key))
        => /\ last_op.result.raised = ""
           /\ (last_op.lnk # "open" \/ Malformed(Strip(last_op.output), last_op.key))
                 => last_op.result.value = None

C8_Witness ==
    /\ last_op.op = "read_pid" /\ last_op.key = "RPM"
    /\ last_op.lnk = "open"
    /\ last_op.output = <<"4","1"," ","0","C"," ","6","4"," ">>
    /\ last_op.result.value = None

\* C9: in a tick, and in read_all, every key read so far got exactly one
\* command, in list order, and is in the snapshot; a failed read does not
\* end the worker; the snapshot the callback gets has None for every key
\* whose read failed, and misses keys only when the tick was cancelled
C9_FailedReadDoesNotAbort ==
    /\ [](\A i \in 1..Len(threads) :
            LET t == threads[i]
            IN  t.pc \in {"for", "send", "callback"}
                  => /\ Len(t.log) = t.k - 1
                     /\ \A j \in 1..Len(t.log) :
                           /\ t.log[j].cmd = CmdOf(t.selected_keys[j])
                           /\ t.selected_keys[j] \in DOMAIN t.snapshot)
    /\ [](\A i \in 1..Len(threads) :
            LET t == threads[i]
            IN  t.pc = "callback"
                  => /\ \A j \in 1..Len(t.log) :
                           ReplyFailed(t.log[j].reply, t.selected_keys[j])
                              => t.snapshot[t.selected_keys[j]] = None
                     /\ t.k <= Len(t.selected_keys) => stop_event)
    /\ [](last_op.op = "read_all"
            => /\ DOMAIN last_op.result = RegistryKeySet
               /\ last_op.sent = [j \in 1..Len(OBD_PIDS) |-> CmdOf(OBD_PIDS[j].key)]
               /\ \A key \in RegistryKeySet :
                     ReplyFailed(send_command(last_op.lnk,
                                     AdapterOutput(last_op.adp, CmdOf(key))), key)
                        => last_op.result[key] = None)
    /\ [][ \A i \in 1..Len(threads) :
              threads[i].pc = "send" => threads'[i].pc \in {"send", "for"} ]_vars

C9_Witness ==
    \E i \in 1..Len(threads) :
        /\ threads[i].pc = "callback"
        /\ threads[i].selected_keys = <<"RPM", "SPEED">>
        /\ DOMAIN threads[i].snapshot = {"RPM", "SPEED", "_timestamp"}
        /\ threads[i].snapshot["RPM"] = None
        /\ threads[i].snapshot["SPEED"] = Num(100, 1)

\* C10: on a transport failure clear_dtcs and send_raw return a failure
\* string and do not raise
C10_WritesReturnFailureString ==
    (last_op.op \in {"clear_dtcs", "send_raw"} /\ last_op.lnk # "open")
        => /\ last_op.result.raised = ""
           /\ StartsWith(last_op.result.value, ErrorPrefix)

(***************************************************************************)
(* The bytes of a reply, stated on the characters of the reply: a token is *)
(* a maximal run of non-blank characters, and a reply byte is a token of   *)
(* exactly two hexadecimal digits in either case                           *)
(***************************************************************************)

DigitOf(c) ==
    CASE c = "0" -> 0 [] c = "1" -> 1 [] c = "2" -> 2 [] c = "3" -> 3
      [] c = "4" -> 4 [] c = "5" -> 5 [] c = "6" -> 6 [] c = "7" -> 7
      [] c = "8" -> 8 [] c = "9" -> 9
      [] c \in {"A", "a"} -> 10 [] c \in {"B", "b"} -> 11
      [] c \in {"C", "c"} -> 12 [] c \in {"D", "d"} -> 13
      [] c \in {"E", "e"} -> 14 [] c \in {"F", "f"} -> 15
      [] OTHER -> -1

Blank(s, i) == i < 1 \/ i > Len(s) \/ s[i] \in {" ", "\t", "\n", "\r", "\f"}

\* the positions at which a two-digit hexadecimal token starts
ByteStarts(s) ==
    { a \in 1..(Len(s) - 1) :
        /\ Blank(s, a - 1) /\ Blank(s, a + 2)
        /\ DigitOf(s[a]) >= 0 /\ DigitOf(s[a + 1]) >= 0 }

ReplyBytes(s) ==
    LET S == ByteStarts(s)
    IN  [n \in 1..Cardinality(S) |->
            LET a == CHOOSE x \in S : Cardinality({y \in S : y < x}) = n - 1
            IN  16 * DigitOf(s[a]) + DigitOf(s[a + 1])]

ByteOf(t) == 16 * DigitOf(t[1]) + DigitOf(t[2])

\* C11: the frame parser returns no data when the reply has no byte equal
\* to mode + 0x40, when the byte after the first such byte is not the
\* requested PID, or when nothing follows the PID; otherwise it returns
\* all the reply bytes after the response mode and the PID, in order
C11_FrameParse ==
    last_op.op = "_parse_hex_response"
        => LET V  == ReplyBytes(last_op.raw)
               at == {p \in 1..Len(V) : V[p] = ByteOf(last_op.mode) + 64}
           IN  IF at = {}
               THEN last_op.result = NoData
               ELSE LET f == CHOOSE p \in at : \A q \in at : p <= q
                    IN  IF \/ f + 1 > Len(V)
                           \/ V[f + 1] # ByteOf(last_op.pid)
                           \/ f + 2 > Len(V)
                        THEN last_op.result = NoData
                        ELSE last_op.result
                                 = [ok |-> TRUE, data |-> SubSeq(V, f + 2, Len(V))]

C11_Witness ==
    /\ last_op.op = "_parse_hex_response"
    /\ last_op.raw = <<"7","E","8"," ","4","1","\r","0","c","\n","1","A"," ","F","8">>
    /\ last_op.pid = <<"0","C">>
    /\ last_op.result = [ok |-> TRUE, data |-> <<26, 248>>]

NotZeroPair(q) == q # <<0, 0>>

\* the code of one byte pair: P/C/B/U from the top two bits of the high
\* byte, a digit 0-3 from the next two bits, then the low nibble of the
\* high byte and the two nibbles of the low byte as hex digits
CodeOf(q) ==
    << <<"P", "C", "B", "U">>[(q[1] \div 64) + 1],
       HexDigits[((q[1] \div 16) % 4) + 1],
       HexDigits[(q[1] % 16) + 1],
       HexDigits[(q[2] \div 16) + 1],
       HexDigits[(q[2] % 16) + 1] >>

\* C12: for a reply that starts with the response mode 43 or 47, the DTC
\* parser returns one code per byte pair after that byte that is not
\* (0, 0), in the order of the pairs, duplicates and pairs after a zero
\* pair included
C12_DtcDecode ==
    LET V == IF last_op.op = "_parse_dtcs" THEN ReplyBytes(last_op.raw) ELSE <<>>
    IN  (V # <<>> /\ V[1] \in {67, 71})
            => LET pairs == [p \in 1..((Len(V) - 1) \div 2) |-> <<V[2 * p], V[2 * p + 1]>>]
                   kept  == SelectSeq(pairs, NotZeroPair)
               IN  last_op.result = [j \in 1..Len(kept) |-> CodeOf(kept[j])]

C12_Witness ==
    /\ last_op.op = "_parse_dtcs"
    /\ last_op.raw = <<"4","3"," ","0","0"," ","0","0"," ","c","1"," ","2","3","\r">>
    /\ last_op.result = << <<"U","0","1","2","3">> >>

\* C13: from a reply that carries, after the marker 49, the 17 bytes of a
\* VIN interleaved only with the PID byte, frame headers and
\* frame-continuation counters, the VIN parser returns that VIN
C13_VinRecovered ==
    (last_op.op = "_parse_vin" /\ last_op.vin # NoVin)
        => last_op.result = last_op.vin

\* C14: the VIN parser returns N/A when fewer than five printable bytes
\* follow the first marker 49 (none when there is no marker)
C14_ShortVinIsNotAvailable ==
    last_op.op = "_parse_vin"
        => LET V == ReplyBytes(last_op.raw)
               recovered == { p \in 1..Len(V) :
                                /\ V[p] # 73 /\ 32 <= V[p] /\ V[p] <= 126
                                /\ \E m \in 1..(p - 1) : V[m] = 73 }
           IN  Cardinality(recovered) < 5 => last_op.result = NotAvailable

C14_Witness ==
    /\ last_op.op = "_parse_vin"
    /\ last_op.raw = <<"3","1"," ","3","2"," ","4","7"," ","4","8"," ","4","A"," ">>
    /\ last_op.result = NotAvailable

\* C15 as stated: a decoder applied to fewer bytes than its PID declares
\* returns no value and does not raise
C15_ShortInputGivesNoValue ==
    (last_op.op = "decode" /\ Len(last_op.bytes) < Info(last_op.key).bytes)
        => (~last_op.result.raised /\ last_op.result.value = None)

\* C15 amended: read_pid of a registered key whose reply carries the
\* response mode and the PID but fewer data bytes than the PID declares
\* returns None and does not raise
C15_ShortReplyGivesNone ==
    (last_op.op = "read_pid" /\ Registered(last_op.key) /\ last_op.lnk = "open")
        => LET V  == ReplyBytes(last_op.output)
               at == {p \in 1..Len(V) : V[p] = 65}
               f  == CHOOSE p \in at : \A q \in at : p <= q
           IN  (/\ at # {}
                /\ f + 1 <= Len(V)
                /\ V[f + 1] = ByteOf(Info(last_op.key).pid)
                /\ Len(V) - (f + 1) < Info(last_op.key).bytes)
                   => (last_op.result.raised = "" /\ last_op.result.value = None)

C15_Witness ==
    /\ last_op.op = "read_pid" /\ last_op.key = "MIL_STATUS"
    /\ last_op.lnk = "open"
    /\ last_op.output = <<"4","1"," ","0","1"," ","6","4"," ">>
    /\ last_op.result.value = None

\* C18: on their declared number of bytes the decoders of RPM, SPEED,
\* COOLANT_TEMP and EVAP_PRESSURE equal (256*b0 + b1) / 4, b0, b0 - 40 and
\* s / 4, s being 256*b0 + b1 as a signed 16-bit integer
C18_DecodersMatchFormulas ==
    (last_op.op = "decode" /\ Len(last_op.bytes) = Info(last_op.key).bytes
       /\ last_op.key \in {"RPM", "SPEED", "COOLANT_TEMP", "EVAP_PRESSURE"})
        => LET b == last_op.bytes
               v == last_op.result.value
           IN  /\ ~last_op.result.raised
               /\ v.kind = "num" /\ v.den > 0
               /\ last_op.key = "RPM" => v.num * 4 = (256 * b[1] + b[2]) * v.den
               /\ last_op.key = "SPEED" => v.num = b[1] * v.den
               /\ last_op.key = "COOLANT_TEMP" => v.num = (b[1] - 40) * v.den
               /\ last_op.key = "EVAP_PRESSURE"
                     => LET raw == 256 * b[1] + b[2]
                            s   == IF raw >= 32768 THEN raw - 65536 ELSE raw
                        IN  v.num * 4 = s * v.den

C18_Witness ==
    /\ last_op.op = "decode" /\ last_op.key = "EVAP_PRESSURE"
    /\ last_op.bytes = <<128, 0>>
    /\ last_op.result.value = Num(-32768, 4)

\* C19: on a four-byte payload the MIL_STATUS decoder returns mil_on = bit 7
\* of byte 0 and dtc_count = bits 0-6 of byte 0, whatever bytes 1-3 are
C19_MilStatusDecode ==
    (last_op.op = "decode" /\ last_op.key = "MIL_STATUS" /\ Len(last_op.bytes) = 4)
        => LET b0 == last_op.bytes[1]
               v  == last_op.result.value
           IN  /\ ~last_op.result.raised
               /\ v.mil_on = (b0 >= 128)
               /\ v.dtc_count = (IF b0 >= 128 THEN b0 - 128 ELSE b0)
               /\ v.dtc_count \in 0..127

C19_Witness ==
    /\ last_op.op = "decode" /\ last_op.key = "MIL_STATUS"
    /\ last_op.bytes = <<129, 255, 0, 255>>
    /\ last_op.result.value = [kind |-> "mil", mil_on |-> TRUE, dtc_count |-> 1]

\* C16: the mapping read_all returns has every registry key except
\* MIL_STATUS
C16_ReadAllSkipsMilStatus ==
    last_op.op = "read_all"
        => DOMAIN last_op.result = RegistryKeySet \ {"MIL_STATUS"}

\* C17: read_mil_status does not raise; it returns a status whose mil_on and
\* dtc_count are None when the reply has no data, and bit 7 and bits 0-6 of
\* the first data byte on a positive 41 01 reply
C17_ReadMilStatusNeverRaises ==
    last_op.op = "read_mil_status"
        => /\ last_op.result.raised = ""
           /\ LET V == IF last_op.lnk = "open" THEN ReplyBytes(last_op.output) ELSE <<>>
              IN  IF Len(V) >= 3 /\ V[1] = 65 /\ V[2] = 1
                  THEN /\ last_op.result.value.mil_on = (V[3] >= 128)
                       /\ last_op.result.value.dtc_count = V[3] % 128
                  ELSE /\ last_op.result.value.mil_on = None
                       /\ last_op.result.value.dtc_count = None

\* C20: a stop_realtime call made while no worker is alive returns without
\* a timeout, its join on an ended thread returns at once, no thread is
\* created or changed and the poller stays idle; the start_realtime call
\* that follows creates a live worker with a clear cancellation flag
C20_StopWhileIdleIsNoOp ==
    /\ [][ (/\ ~WorkerAlive
             /\ \/ caller = Idle /\ caller'.pc = "join"
                \/ caller.pc = "join" /\ caller' = Idle
                \/ caller = Idle /\ last_op'.op = "stop" /\ last_op' # last_op)
             => /\ ~WorkerAlive'
                /\ threads' = threads
                /\ realtime_thread' = realtime_thread
                /\ caller' = Idle => (last_op'.op = "stop" /\ ~last_op'.timed_out) ]_vars
    /\ []((caller.pc = "join" /\ ~WorkerAlive)
            => (ENABLED JoinReturn /\ ~ENABLED JoinTimeout))
    /\ [][ (last_op.op = "stop" /\ ~WorkerAlive /\ last_op'.op = "start")
             => /\ last_op'.created
                /\ WorkerAlive'
                /\ ~stop_event'
                /\ threads'[realtime_thread'].pc = "while"
                /\ threads'[realtime_thread'].callback = last_op'.args.callback ]_vars

C20_Witness ==
    /\ last_op.op = "start" /\ last_op.created /\ last_op.before = "stop_idle"
    /\ Len(threads) = 1
    /\ threads[1].pc = "wait" /\ threads[1].delivered
    /\ ~stop_event

\* C21: the string send_command returns has no prompt character '>' in it,
\* and is empty when the adapter sent nothing
C21_ReplyHasNoPrompt ==
    (last_op.op = "send_raw" /\ last_op.lnk = "open")
        => /\ last_op.result.raised = ""
           /\ ">" \notin Range(last_op.result.value)
           /\ last_op.output = <<>> => last_op.result.value = <<>>

\* the speeds that are not None, in order
HasSpeed(v) == v # NoValue

\* the distance covered over a list of snapshots, each leg being the mean
\* of the speeds at its two ends times the seconds between them, a
\* snapshot without a speed leaving the last known speed in place
RECURSIVE LegsFrom(_, _, _)
LegsFrom(snaps, prev_speed, prev_time) ==
    IF snaps = <<>> THEN 0
    ELSE LET s == Head(snaps)
         IN  IF s.SPEED = NoValue
             THEN LegsFrom(Tail(snaps), prev_speed, s._timestamp)
             ELSE (prev_speed + s.SPEED) * (s._timestamp - prev_time)
                      + LegsFrom(Tail(snaps), s.SPEED, s._timestamp)

\* C22: the trip summary (sample count, maximum and mean speed, distance)
\* is the one of the snapshots received since the most recent dashboard
\* start
C22_TripResetOnDashboardStart ==
    last_op.op = "run_dashboard"
        => LET speeds == SelectSeq([j \in 1..Len(last_op.snapshots) |->
                                        last_op.snapshots[j].SPEED], HasSpeed)
               shown  == _trip_summary(caller)
           IN  /\ shown.samples = Len(speeds)
               /\ shown.max = Max(speeds)
               /\ shown.avg_sum = Sum(speeds) /\ shown.avg_cnt = Len(speeds)
               /\ shown.distance
                      = (IF last_op.snapshots = <<>> THEN 0
                         ELSE LegsFrom(Tail(last_op.snapshots),
                                       (IF last_op.snapshots[1].SPEED = NoValue THEN 0
                                        ELSE last_op.snapshots[1].SPEED),
                                       last_op.snapshots[1]._timestamp))

\* the ways the prompt follows the last byte of a reply
PromptTails == { <<">">>, <<" ", ">">>, <<"\r", "\r", ">">> }

\* C23: a reply parsed with the prompt character '>' appended, with or
\* without blanks before it, gives the payload the reply alone gives
C23_PromptDoesNotChangePayload ==
    last_op.op = "_parse_hex_response"
        => \A tail \in PromptTails :
               _parse_hex_response(last_op.raw \o tail, last_op.mode, last_op.pid)
                   = last_op.result

\* the byte pairs of a DTC reply, with and without a leading byte
PairsOf(V) ==
    { <<V[p], V[p + 1]>> : p \in 1..(Len(V) - 1) }

\* C24: every string returned by _parse_dtcs, read_dtcs and
\* read_pending_dtcs has five characters: one of P, C, B, U, a digit 0-3
\* and three upper-case hexadecimal digits, and is the code of a byte pair
\* of the reply that is not (0, 0)
C24_DtcRecordShape ==
    last_op.op \in {"_parse_dtcs", "read_dtcs", "read_pending_dtcs"}
        => LET raw == IF last_op.op = "_parse_dtcs" THEN last_op.raw
                      ELSE IF last_op.lnk = "open" THEN last_op.output ELSE <<>>
               V   == ReplyBytes(raw)
           IN  \A j \in 1..Len(last_op.result) :
                  LET s == last_op.result[j]
                  IN  /\ Len(s) = 5
                      /\ s[1] \in {"P", "C", "B", "U"}
                      /\ s[2] \in {"0", "1", "2", "3"}
                      /\ \A n \in 3..5 : s[n] \in Range(HexDigits)
                      /\ \E q \in PairsOf(V) : q # <<0, 0>> /\ CodeOf(q) = s

C24_Witness ==
    /\ last_op.op = "read_pending_dtcs" /\ last_op.lnk = "open"
    /\ last_op.output = <<"4","7"," ","0","0"," ","0","0"," ","c","1"," ","2","3","\r">>
    /\ last_op.result = << <<"U","0","1","2","3">> >>

\* C25: a worker ends only after stop_realtime has set the cancellation
\* flag, whatever its reads return and whatever the callback does
C25_WorkerEndsOnlyOnStop ==
    [][ \A i \in 1..Len(threads) :
           (IsAlive(threads[i]) /\ ~IsAlive(threads'[i])) => stop_event ]_vars

\* C26: while the cancellation flag is set, a worker starts no read (the
\* only command that can follow is the one of a read already past its
\* check), its interval wait returns without the interval passing, and its
\* loop test ends it instead of starting a tick
C26_CancellationIsChecked ==
    /\ [][ \A i \in 1..Len(threads) :
              stop_event =>
                 /\ threads[i].pc = "for" => threads'[i].pc # "send"
                 /\ Len(threads'[i].log) > Len(threads[i].log)
                       => (threads[i].pc = "send" /\ threads'[i].pc = "for")
                 /\ threads[i].pc = "wait" => threads'[i].pc \in {"wait", "while"}
                 /\ (threads[i].pc = "while" /\ threads'[i] # threads[i])
                       => ~IsAlive(threads'[i]) ]_vars
    /\ [](\A i \in 1..Len(threads) :
            (stop_event /\ threads[i].pc = "wait") => ENABLED WaitReturn(i))

C26_Witness ==
    /\ stop_event
    /\ last_op.op = "stop" /\ last_op.timed_out
    /\ Len(threads) = 1
    /\ threads[1].pc = "wait"
    /\ threads[1].selected_keys = <<"RPM", "SPEED">>
    /\ Len(threads[1].log) = 1

\* the steps of one tick, as pairs of positions of the worker: the loop
\* test, then reads one after the other, then the callback, then the wait
TickOrder ==
    { <<"while", "for">>, <<"while", "dead">>,
      <<"for", "send">>, <<"send", "for">>, <<"for", "callback">>,
      <<"callback", "wait">>, <<"wait", "elapsed">>, <<"wait", "while">>,
      <<"elapsed", "while">>,
      <<"for", "crashed">>, <<"send", "crashed">>, <<"callback", "crashed">> }

\* C27: in a tick the commands sent are those of the selected keys (the
\* keys given, or all registry keys in registry order), one per key in list
\* order, all of them when the tick is not cancelled; the callback is
\* invoked after the reads, the interval wait starts after the callback has
\* returned and the next tick after the wait; at most one connector
\* command is in flight
C27_TickIsSequential ==
    /\ [](\A i \in 1..Len(threads) :
            LET t == threads[i]
            IN  t.pc \in {"for", "send", "callback"}
                  => /\ [j \in 1..Len(t.log) |-> t.log[j].cmd]
                           = [j \in 1..(t.k - 1) |->
                                 Info(t.selected_keys[j]).mode \o Info(t.selected_keys[j]).pid]
                     /\ t.k - 1 <= Len(t.selected_keys)
                     /\ (t.pc = "callback" /\ ~stop_event) => t.k - 1 = Len(t.selected_keys)
                     /\ t.pc = "send" => t.k <= Len(t.selected_keys))
    /\ [](Cardinality({i \in 1..Len(threads) : threads[i].pc = "send"}) <= 1)
    /\ [][ \A i \in 1..Len(threads) :
              /\ threads'[i].pc # threads[i].pc
                    => <<threads[i].pc, threads'[i].pc>> \in TickOrder
              /\ (threads[i].pc = "while" /\ threads'[i].pc = "for")
                    => (threads'[i].k = 1 /\ threads'[i].log = <<>>) ]_vars
    /\ [][ Len(threads') > Len(threads)
              => /\ threads'[Len(threads')].pc = "while"
                 /\ threads'[Len(threads')].selected_keys
                       = (IF last_op'.args.keys = <<>>
                          THEN [j \in 1..Len(OBD_PIDS) |-> OBD_PIDS[j].key]
                          ELSE last_op'.args.keys) ]_vars

C27_Witness ==
    /\ ~stop_event
    /\ Len(threads) = 1
    /\ threads[1].pc = "wait"
    /\ threads[1].callback = "cb2"
    /\ [j \in 1..Len(threads[1].log) |-> threads[1].log[j].cmd]
           = << <<"0","1","0","C">>, <<"0","1","0","D">> >>

\* a sequence without the blanks at its two ends
Trimmed(s) ==
    LET keep == {p \in 1..Len(s) : s[p] # " "}
    IN  IF keep = {} THEN <<>>
        ELSE SubSeq(s, CHOOSE a \in keep : \A b \in keep : a <= b,
                       CHOOSE a \in keep : \A b \in keep : a >= b)

IsPrintableByte(v) == 32 <= v /\ v <= 126

\* C28: _parse_ascii_info, and read_ecu_name and read_calibration_id on an
\* open link, return the characters of the reply bytes in 0x20..0x7E, in
\* reply order, without the blanks at the two ends, whatever the length,
\* and N/A only when that text is empty
C28_AsciiInfo ==
    last_op.op \in {"_parse_ascii_info", "read_ecu_name", "read_calibration_id"}
        => LET open == last_op.op = "_parse_ascii_info" \/ last_op.lnk = "open"
               raw  == IF last_op.op = "_parse_ascii_info" THEN last_op.raw
                       ELSE last_op.output
               kept == SelectSeq(ReplyBytes(IF open THEN raw ELSE <<>>), IsPrintableByte)
               text == Trimmed([j \in 1..Len(kept) |-> Printable[kept[j] - 31]])
           IN  /\ open /\ text # <<>> => last_op.result = text
               /\ open /\ text = <<>> => last_op.result = <<"N", "/", "A">>
               /\ ~open => last_op.result = <<"N", "/", "A">>

C28_Witness ==
    /\ last_op.op = "read_ecu_name" /\ last_op.lnk = "open"
    /\ last_op.output = <<"2","0"," ","6","b","\r","\r","\r",">">>
    /\ last_op.result = <<"k">>

\* C29: from the return of a stop_realtime whose join did not time out
\* until the next start_realtime, no worker is alive; a worker that has
\* ended invokes no callback and sends no command, and only start_realtime
\* creates a worker
C29_QuietAfterJoinedStop ==
    /\ []((last_op.op = "stop" /\ last_op.join_called /\ ~last_op.timed_out)
            => \A i \in 1..Len(threads) : threads[i].pc \in {"dead", "crashed"})
    /\ [][ \A i \in 1..Len(threads) :
              threads[i].pc \in {"dead", "crashed"} => threads'[i] = threads[i] ]_vars
    /\ [][ (\E i \in 1..Len(threads') :
               /\ threads'[i].pc \in {"send", "callback"}
               /\ i <= Len(threads) => threads[i].pc # threads'[i].pc)
             => \E i \in 1..Len(threads) : threads[i].pc = "for" ]_vars
    /\ [][ Len(threads') # Len(threads)
             => (Len(threads') = Len(threads) + 1
                   /\ last_op'.op = "start" /\ last_op'.created) ]_vars

C29_Witness ==
    /\ last_op.op = "stop" /\ last_op.join_called /\ ~last_op.timed_out
    /\ Len(threads) = 1
    /\ threads[1].pc = "dead"
    /\ link = "open" /\ adapter = "positive"

\* C30: read_vin sends AT H1, 0902, AT H0 in that order, and whenever its
\* AT H1 went through, AT H0 is the last command it has sent when it returns
C30_HeadersSwitchedOffAgain ==
    last_op.op = "read_vin"
        => /\ \A j \in 1..Len(last_op.sent) :
                 last_op.sent[j] = << <<"A","T"," ","H","1">>, <<"0","9","0","2">>,
                                      <<"A","T"," ","H","0">> >>[j]
           /\ last_op.fail_at # 1
                 => (/\ last_op.sent # <<>>
                     /\ last_op.sent[Len(last_op.sent)] = <<"A","T"," ","H","0">>)

====
